---- MODULE Spec2Model ----
(***************************************************************************)
(* conda_build/source.py: provisioning of a source tree into WORK_DIR from *)
(* an archive (src_cache), a Git, Mercurial or Subversion mirror, or from  *)
(* nothing, followed by the recipe's patches.                              *)
(*                                                                         *)
(* Strings are sequences of one-character strings, so that split, replace, *)
(* lower, startswith and endswith are computed as Python computes them.    *)
(* The file system is the state: the work directory, the archive cache and *)
(* the three mirror caches. The cache root directories, which the code     *)
(* makes when they are missing, are taken to exist.                        *)
(***************************************************************************)
EXTENDS Integers, Sequences, FiniteSets, TLC

\* ------------------------------------------------------------------ bounds
\* Longest patch list of a descriptor.
MaxPatches == 2

\* The provide calls that may be in progress: 1 alone when calls are
\* serialized, 1 and 2 when two build processes run provide at once.
Procs == {1, 2}
Serial == {1}

\* ----------------------------------------------------------------- strings
None == <<>>

Truthy(v) == v # <<>>

Or(a, b) == IF Truthy(a) THEN a ELSE b

LowerChar(c) ==
    CASE c = "T" -> "t" [] c = "G" -> "g" [] c = "Z" -> "z"
      [] c = "I" -> "i" [] c = "P" -> "p" [] c = "A" -> "a"
      [] c = "R" -> "r" [] c = "B" -> "b" [] c = "X" -> "x"
      [] OTHER -> c

lower(s) == [i \in 1..Len(s) |-> LowerChar(s[i])]

endswith(s, suf) ==
    /\ Len(suf) <= Len(s)
    /\ SubSeq(s, Len(s) - Len(suf) + 1, Len(s)) = suf

startswith(s, pre) ==
    /\ Len(pre) <= Len(s)
    /\ SubSeq(s, 1, Len(pre)) = pre

\* s.replace(a, b) for one-character a and b.
replace(s, a, b) == [i \in 1..Len(s) |-> IF s[i] = a THEN b ELSE s[i]]

\* Positions of the separator c in s.
Seps(s, c) == {i \in 1..Len(s) : s[i] = c}

Max(S) == CHOOSE x \in S : \A y \in S : y <= x
Min(S) == CHOOSE x \in S : \A y \in S : x <= y

\* s.split(c)[-1]: what follows the last c (all of s when there is none).
SplitLast(s, c) ==
    IF Seps(s, c) = {} THEN s ELSE SubSeq(s, Max(Seps(s, c)) + 1, Len(s))

\* s.split(c, 1)[-1]: what follows the first c (all of s when there is none).
SplitFirst(s, c) ==
    IF Seps(s, c) = {} THEN s ELSE SubSeq(s, Min(Seps(s, c)) + 1, Len(s))

\* ------------------------------------------------------------- descriptors
\* Longest archive cache of the specification of the extractor, in files.
MaxCached == 1

\* A descriptor (meta) is a function from the keys it holds to their values.
EmptyFn == [x \in {} |-> x]

Has(m, k) == k \in DOMAIN m

\* meta.get(k): None when the key is absent.
Get(m, k) == IF Has(m, k) THEN m[k] ELSE None

TP == <<"md5", "sha1", "sha256">>

\* File names of archives: a.tgz, a.ZIP, a.py
FnTgz == <<"a", ".", "t", "g", "z">>
FnZip == <<"a", ".", "Z", "I", "P">>
FnRaw == <<"a", ".", "p", "y">>

\* Download URL of an archive.
Url == <<"h", ":", "a">>

\* Remote URLs of repositories: h:a/b and g:a/b.
RepoA == <<"h", ":", "a", "/", "b">>
RepoB == <<"g", ":", "a", "/", "b">>

\* What a downloaded file may hold.
Bodies == {"a", "b"}

\* conda.utils.hashsum_file: the hex digest of a file's content.
hashsum_file(body, tp) ==
    << (CASE tp = "md5" -> "5" [] tp = "sha1" -> "1" [] OTHER -> "2"), body >>

\* Expected digests a recipe may give for algorithm tp: none (an empty
\* value), the digest of body "a", the same in upper case, the digest of "b".
Digests(tp) ==
    { None, hashsum_file("a", tp), <<hashsum_file("a", tp)[1], "A">>,
      hashsum_file("b", tp) }

\* The patch lists of at most MaxPatches distinct patch files, in any order.
PatchFiles == 1..MaxPatches

PatchLists ==
    { p \in UNION { [1..n -> PatchFiles] : n \in 0..MaxPatches } :
        \A i, j \in DOMAIN p : i # j => p[i] # p[j] }

\* Values of the reference keys: a tag, a branch, a revision.
Tag == <<"t">>
Branch == <<"b">>
Rev == <<"7">>

Rec1(k, v) == [x \in {k} |-> v]

\* m with key k set to v.
With(m, k, v) == [x \in DOMAIN m \cup {k} |-> IF x = k THEN v ELSE m[x]]

\* The digests given with the archives of the main specification: none, a
\* matching md5, a matching sha256, a sha1 of another file, a matching md5
\* with a sha256 of another file.
MainDigests ==
    { EmptyFn,
      Rec1("md5", hashsum_file("a", "md5")),
      Rec1("sha256", hashsum_file("a", "sha256")),
      Rec1("sha1", hashsum_file("b", "sha1")),
      With(Rec1("md5", hashsum_file("a", "md5")), "sha256",
           hashsum_file("b", "sha256")) }

ArchiveMeta(fn, digs) == With(With(digs, "fn", fn), "url", Url)

ArchiveMetas == { ArchiveMeta(fn, d) : fn \in {FnTgz, FnRaw}, d \in MainDigests }

GitMetas ==
    { Rec1("git_url", u) : u \in {RepoA, RepoB} }
      \cup { With(Rec1("git_url", RepoA), "git_tag", Tag),
             With(Rec1("git_url", RepoA), "git_branch", Branch),
             With(With(Rec1("git_url", RepoA), "git_tag", Tag),
                  "git_branch", Branch),
             With(With(Rec1("git_url", RepoA), "git_tag", None),
                  "git_branch", Branch) }

HgMetas ==
    { Rec1("hg_url", RepoA), With(Rec1("hg_url", RepoA), "hg_tag", Tag),
      With(Rec1("hg_url", RepoA), "hg_tag", None) }

SvnMetas ==
    { Rec1("svn_url", RepoA), With(Rec1("svn_url", RepoA), "svn_rev", Rev),
      With(Rec1("svn_url", RepoA), "svn_rev", None) }

\* File names for the extractor: the suffixes of line 67 and of line 69 in
\* lower, upper and mixed case, and names that end otherwise, in a suffix
\* unknown, in a known suffix without its dot, or in one known suffix
\* followed by another.
ExtractNames ==
    { FnTgz, FnZip, FnRaw,
      <<"a", ".", "t", "a", "r", ".", "g", "z">>,
      <<"a", ".", "t", "a", "r", ".", "b", "z", "2">>,
      <<"a", ".", "t", "a", "r", ".", "x", "z">>,
      <<"a", ".", "t", "a", "r">>,
      <<"a", ".", "z", "i", "p">>,
      <<"A", ".", "T", "A", "R", ".", "G", "Z">>,
      <<"a", ".", "T", "g", "z">>,
      <<"a", ".", "T", "A", "R", ".", "B", "Z", "2">>,
      <<"a", ".", "t", "a", "r", ".", "X", "Z">>,
      <<"a", ".", "T", "a", "R">>,
      <<"a", ".", "g", "z">>,
      <<"a", "t", "g", "z">>,
      <<"t", "a", "r">>,
      <<"a", ".", "z", "i", "p", ".", "g", "z">>,
      <<"a", ".", "t", "a", "r", ".", "z", "i", "p">>,
      <<"a", ".", "z", "i", "p", ".", "t", "a", "r">>,
      <<"a", ".", "t", "g", "z", ".", "a", "s", "c">> }

\* Descriptors holding keys of several source kinds, the one of __main__
\* (url, git_url and git_tag, no fn) among them, and a url alone.
MixedMetas ==
    { With(With(Rec1("url", Url), "git_url", RepoA), "git_tag", Tag),
      With(ArchiveMeta(FnTgz, EmptyFn), "git_url", RepoA),
      With(ArchiveMeta(FnTgz, EmptyFn), "svn_url", RepoA),
      With(Rec1("git_url", RepoA), "hg_url", RepoA),
      With(Rec1("hg_url", RepoA), "svn_url", RepoA),
      Rec1("url", Url),
      Rec1("fn", FnRaw) }

\* The descriptors that also come with each patch list.
Patchable ==
    { EmptyFn, ArchiveMeta(FnTgz, EmptyFn), Rec1("git_url", RepoA) }

Metas ==
    ArchiveMetas \cup GitMetas \cup HgMetas \cup SvnMetas \cup MixedMetas
      \cup { With(m, "patches", pl) : m \in Patchable, pl \in PatchLists }
      \cup { EmptyFn }

\* -------------------------------------------------------------- file system
\* Paths are sequences of names below croot.
WORK_DIR == << <<"w">> >>

\* The archive cache, as the string of its path.
SRC_CACHE == <<"c", "/", "s">>

\* download_to_cache, lines 46 and 59: join(SRC_CACHE, fn), as a string.
join_src_cache(fn) == SRC_CACHE \o <<"/">> \o fn

join(path, name) == Append(path, name)

Pkg == <<"p">>
Readme == <<"R">>
DotGit == <<".", "g">>
DotHg == <<".", "h">>
Sentinel == <<"s">>
DotSentinel == <<".", "s">>
NewFile == <<"n">>

\* A top-level entry of the work directory. by: the provide call in progress
\* that put it there, 0 for what was there before every call in progress.
Entry(name, isdir, by) == [name |-> name, isdir |-> isdir, by |-> by]

NoOrigin == [kind |-> "none", key |-> <<>>, url |-> <<>>, ref |-> <<>>, body |-> ""]

\* The work directory: whether it exists, its top-level entries, the tree it
\* holds (which archive, or which mirror at which reference) and the patches
\* applied to it, in order.
NoWork == [exists |-> FALSE, ents |-> {}, origin |-> NoOrigin, patched |-> <<>>]

EmptyWork == [NoWork EXCEPT !.exists = TRUE]

\* The entries an archive body unpacks to.
ArchiveTree(body, by) ==
    IF body = "a" THEN {Entry(Pkg, TRUE, by)}
    ELSE {Entry(Pkg, TRUE, by), Entry(Readme, FALSE, by)}

GitTree(by) == {Entry(DotGit, TRUE, by), Entry(Pkg, TRUE, by)}

HgTree(by) == {Entry(DotHg, TRUE, by), Entry(Pkg, TRUE, by), Entry(Readme, FALSE, by)}

\* The copy of a Subversion mirror, .svn left out.
SvnTree(by) == {Entry(Pkg, TRUE, by), Entry(Readme, FALSE, by)}

VARIABLES
    work,       \* WORK_DIR
    src_cache,  \* SRC_CACHE: file name -> body
    mirrors,    \* GIT_CACHE, HG_CACHE, SVN_CACHE: directory name -> mirror
    pc,         \* per call: where provide stands
    meta,       \* per call: the descriptor
    patch,      \* per call: the patch argument
    src_dir,    \* per call: the root the patches apply to (<<>> before get_dir)
    tried,      \* per call: the patch files apply_patch was called with
    err,        \* per call: the error that ended it ("" for none)
    did,        \* history, per call: the external operations invoked so far
    stale,      \* history, per call: WORK_DIR held entries when it was called
    again,      \* history, per call: the call before it provided the same
                \* repository from the same provider and completed, or
                \* failed the integrity check of the same file name with
                \* the same digests
    prev,       \* history: the provider and remote of the last call, if it
                \* completed, or the file it rejected, if it failed its
                \* integrity check, and no call was made since
    ret,        \* per call: whether provide has returned, and the value
    patch_tool, \* per call: whether the host has the patch tool, as the
                \* patching finds it (TRUE outside the patching)
    alone       \* history, per call: no other call was in progress at any
                \* time since this one was made

vars ==
    <<work, src_cache, mirrors, pc, meta, patch, src_dir, tried, err, did,
      stale, again, prev, ret, patch_tool, alone>>

\* What a step of a call leaves alone besides the file system and pc, err, did.
frame == <<meta, patch, src_dir, tried, stale, again, prev, ret, patch_tool, alone>>

NoPrev == [kind |-> "none", url |-> <<>>]

\* A call that has not returned, and one that has returned value v.
NoReturn == [returned |-> FALSE, value |-> None]

Returned(v) == [returned |-> TRUE, value |-> v]

Init ==
    /\ work = NoWork
    /\ src_cache = EmptyFn
    /\ mirrors = [k \in {"git", "hg", "svn"} |-> EmptyFn]
    /\ pc = [r \in Procs |-> "idle"]
    /\ meta = [r \in Procs |-> EmptyFn]
    /\ patch = [r \in Procs |-> FALSE]
    /\ src_dir = [r \in Procs |-> <<>>]
    /\ tried = [r \in Procs |-> <<>>]
    /\ err = [r \in Procs |-> ""]
    /\ did = [r \in Procs |-> {}]
    /\ stale = [r \in Procs |-> FALSE]
    /\ again = [r \in Procs |-> FALSE]
    /\ prev = NoPrev
    /\ ret = [r \in Procs |-> NoReturn]
    /\ patch_tool = [r \in Procs |-> TRUE]
    /\ alone = [r \in Procs |-> TRUE]

\* Control moves on (or the call fails) and nothing else of the call changes.
Goto(r, to) ==
    /\ pc' = [pc EXCEPT ![r] = to]
    /\ err' = err

Fail(r, e) ==
    /\ pc' = [pc EXCEPT ![r] = "failed"]
    /\ err' = [err EXCEPT ![r] = e]

Did(r, op) == did' = [did EXCEPT ![r] = @ \cup {op}]

\* What an earlier call of process r left is, for its next call, content
\* from before the call.
Aged(w, r) ==
    [w EXCEPT !.ents = { [e EXCEPT !.by = IF e.by = r THEN 0 ELSE e.by] : e \in w.ents },
              !.patched = [i \in DOMAIN w.patched |->
                             [w.patched[i] EXCEPT !.by = IF @ = r THEN 0 ELSE @]]]

\* conda_build.utils.rm_rf: the directory and all below it are removed.
rm_rf(w) == NoWork

\* The branch with the Git key looked at before the filename.
DispatchGitFirst(m) ==
    IF Has(m, "git_url") THEN "git_source"
    ELSE IF Has(m, "fn") THEN "download_to_cache"
    ELSE IF Has(m, "hg_url") THEN "hg_source"
    ELSE IF Has(m, "svn_url") THEN "svn_source"
    ELSE "no_source"

\* The branch provide takes, lines 211-220.
Dispatch(m) ==
    IF Has(m, "fn") THEN "download_to_cache"
    ELSE IF Has(m, "git_url") THEN "git_source"
    ELSE IF Has(m, "hg_url") THEN "hg_source"
    ELSE IF Has(m, "svn_url") THEN "svn_source"
    ELSE "no_source"

\* The provider a descriptor is dispatched to and the remote it names.
Remote(m) ==
    LET to == Dispatch(m) IN
    IF to = "git_source" THEN [kind |-> "git", url |-> m["git_url"]]
    ELSE IF to = "hg_source" THEN [kind |-> "hg", url |-> m["hg_url"]]
    ELSE IF to = "svn_source" THEN [kind |-> "svn", url |-> m["svn_url"]]
    ELSE NoPrev

\* Line 210 as a removal of what WORK_DIR shows: the directory and its
\* hidden entries stay.
ResetVisible(w) ==
    [w EXCEPT !.ents = {e \in @ : startswith(e.name, <<".">>)}]

\* The digests a descriptor gives.
Digs(m) == [tp \in DOMAIN m \cap {"md5", "sha1", "sha256"} |-> m[tp]]

\* A call that failed the integrity check of lines 54-57 with error e.
Rejected(m, e) ==
    [kind |-> "rejected", url |-> m["fn"], digests |-> Digs(m), err |-> e]

\* Descriptor m asks again for what the last call p provided or rejected.
Again(p, m) ==
    /\ p # NoPrev
    /\ \/ p = Remote(m)
       \/ /\ p.kind = "rejected"
          /\ Dispatch(m) = "download_to_cache"
          /\ p.url = m["fn"]
          /\ p.digests = Digs(m)

\* Provide without line 210: WORK_DIR is left as it was found.
ResetOmitted(w) == w

\* Line 210: what provide does to WORK_DIR first.
Reset(w) == rm_rf(w)

\* provide(recipe_dir, m, p) is called by process r: line 210 and the branch
\* of lines 211-220. The end of a call and the return to its caller are one
\* moment: no call is made while another is at its end.
provide(r, M) ==
    /\ pc[r] = "idle"
    /\ \A q \in Procs : pc[q] \notin {"done", "failed"}
    /\ \E m \in M, p \in BOOLEAN :
         /\ meta' = [meta EXCEPT ![r] = m]
         /\ patch' = [patch EXCEPT ![r] = p]
         /\ pc' = [pc EXCEPT ![r] = Dispatch(m)]
         /\ again' = [again EXCEPT ![r] = Again(prev, m)]
    /\ work' = Reset(Aged(work, r))
    /\ stale' = [stale EXCEPT ![r] = work.ents # {}]
    /\ prev' = NoPrev
    /\ alone' = [q \in Procs |->
                   IF q = r THEN \A o \in Procs \ {r} : pc[o] = "idle"
                   ELSE pc[q] = "idle"]
    /\ UNCHANGED <<src_cache, mirrors, src_dir, tried, err, did, ret, patch_tool>>

\* ----------------------------------------------------------- archive path
\* download_to_cache without the isfile test of line 48: every call downloads.
download_always(r) ==
    /\ pc[r] = "download_to_cache"
    /\ LET fn == meta[r]["fn"] IN
       IF ~Has(meta[r], "url")
       THEN /\ Did(r, "KeyError")
            /\ Fail(r, "KeyError")
            /\ UNCHANGED src_cache
       ELSE /\ Did(r, "download")
            /\ \E ok \in BOOLEAN :
                 IF ok
                 THEN /\ \E body \in Bodies :
                           src_cache' = With(src_cache, fn, body)
                      /\ Goto(r, "verify")
                 ELSE /\ Fail(r, "download")
                      /\ UNCHANGED src_cache
    /\ UNCHANGED <<work, mirrors, frame>>

\* download_to_cache, lines 45-52: the file of the cache when there is one,
\* a download otherwise. A failed download raises and leaves no file.
download_to_cache(r) ==
    /\ pc[r] = "download_to_cache"
    /\ LET fn == meta[r]["fn"] IN
       IF fn \in DOMAIN src_cache
       THEN /\ Did(r, "found")
            /\ Goto(r, "verify")
            /\ UNCHANGED src_cache
       ELSE IF ~Has(meta[r], "url")
       THEN /\ Did(r, "KeyError")
            /\ Fail(r, "KeyError")
            /\ UNCHANGED src_cache
       ELSE /\ Did(r, "download")
            /\ \E ok \in BOOLEAN :
                 IF ok
                 THEN /\ \E body \in Bodies :
                           src_cache' = With(src_cache, fn, body)
                      /\ Goto(r, "verify")
                 ELSE /\ Fail(r, "download")
                      /\ UNCHANGED src_cache
    /\ UNCHANGED <<work, mirrors, frame>>

\* Line 55 for md5 alone: sha1 and sha256 are not compared.
MismatchMd5Only(m, body, tp) ==
    tp = "md5" /\ Truthy(Get(m, tp)) /\ hashsum_file(body, tp) # m[tp]

\* Line 55 without its meta.get(tp) guard: an absent digest is compared too.
MismatchUnguarded(m, body, tp) ==
    hashsum_file(body, tp) # Get(m, tp)

\* Line 55: the condition under which algorithm tp raises.
Mismatch(m, body, tp) ==
    Truthy(Get(m, tp)) /\ hashsum_file(body, tp) # m[tp]

\* download_to_cache with the file that fails its check taken out of the
\* cache before the error is raised.
verify_discard(r) ==
    /\ pc[r] = "verify"
    /\ Did(r, "verify")
    /\ LET fn == meta[r]["fn"]
           bad == {i \in 1..Len(TP) : Mismatch(meta[r], src_cache[fn], TP[i])}
       IN  IF bad # {}
           THEN /\ Fail(r, TP[Min(bad)])
                /\ src_cache' = [x \in DOMAIN src_cache \ {fn} |-> src_cache[x]]
           ELSE Goto(r, "unpack") /\ UNCHANGED src_cache
    /\ UNCHANGED <<work, mirrors, frame>>

\* Lines 54-57: the algorithms in order, the first mismatch raises.
verify(r) ==
    /\ pc[r] = "verify"
    /\ Did(r, "verify")
    /\ LET body == src_cache[meta[r]["fn"]]
           bad == {i \in 1..Len(TP) : Mismatch(meta[r], body, TP[i])}
       IN  IF bad # {} THEN Fail(r, TP[Min(bad)]) ELSE Goto(r, "unpack")
    /\ UNCHANGED <<work, src_cache, mirrors, frame>>

\* os.makedirs(WORK_DIR): raises when the directory exists.
makedirs(r, op, to) ==
    /\ Did(r, op)
    /\ IF work.exists
       THEN Fail(r, "OSError") /\ UNCHANGED work
       ELSE Goto(r, to) /\ work' = EmptyWork
    /\ UNCHANGED <<src_cache, mirrors, frame>>

\* unpack, line 66.
unpack(r) ==
    /\ pc[r] = "unpack"
    /\ makedirs(r, "makedirs", "extract")

TarSuffixes ==
    { <<".", "t", "a", "r", ".", "g", "z">>,
      <<".", "t", "a", "r", ".", "b", "z", "2">>,
      <<".", "t", "g", "z">>,
      <<".", "t", "a", "r", ".", "x", "z">>,
      <<".", "t", "a", "r">> }

ZipSuffix == <<".", "z", "i", "p">>

\* Lines 67-74 without lower(): the suffix is compared as it is written.
ExtractorCaseSensitive(path) ==
    IF \E suf \in TarSuffixes : endswith(path, suf) THEN "tar_xf"
    ELSE IF endswith(path, ZipSuffix) THEN "unzip"
    ELSE "copy2"

\* Lines 67-74: what unpack does with the file, by its suffix.
Extractor(src_path) ==
    IF \E suf \in TarSuffixes : endswith(lower(src_path), suf) THEN "tar_xf"
    ELSE IF endswith(lower(src_path), ZipSuffix) THEN "unzip"
    ELSE "copy2"

\* What the extractor puts into WORK_DIR when it succeeds.
Extracted(how, fn, body, by) ==
    IF how = "copy2" THEN {Entry(fn, FALSE, by)} ELSE ArchiveTree(body, by)

\* unpack, lines 67-74. A failing extractor raises and leaves what it had
\* written so far.
extract(r) ==
    /\ pc[r] = "extract"
    /\ LET fn == meta[r]["fn"]
           how == Extractor(join_src_cache(fn))
           all == Extracted(how, fn, src_cache[fn], r)
           org == [NoOrigin EXCEPT !.kind = how, !.key = fn, !.body = src_cache[fn]]
       IN  /\ Did(r, how)
           /\ \E ok \in BOOLEAN :
                IF ok /\ work.exists
                THEN /\ work' = [work EXCEPT !.ents = @ \cup all, !.origin = org]
                     /\ Goto(r, "get_dir")
                ELSE /\ \E part \in (SUBSET all) \ {all} :
                          work' = [work EXCEPT !.ents =
                                     IF work.exists THEN @ \cup part ELSE @]
                     /\ Fail(r, how)
    /\ UNCHANGED <<src_cache, mirrors, frame>>

\* ------------------------------------------------------------ no source
\* The else branch of line 219 with nothing in it.
no_source_pass(r) ==
    /\ pc[r] = "no_source"
    /\ Did(r, "no source")
    /\ Goto(r, "get_dir")
    /\ UNCHANGED <<work, src_cache, mirrors, frame>>

\* provide, line 220.
no_source(r) ==
    /\ pc[r] = "no_source"
    /\ makedirs(r, "no source", "get_dir")

\* -------------------------------------------------------------- patching
\* What provide returns when it completes: it has no return statement, the
\* paths that git_source, hg_source and svn_source return are dropped at
\* lines 214-218, and control falls off the end of lines 222-225.
provide_result == None

\* get_dir, lines 28-36: the single visible entry when it is a directory,
\* WORK_DIR otherwise.
GetDir(w) ==
    LET lst == {e \in w.ents : ~startswith(e.name, <<".">>)} IN
    IF Cardinality(lst) = 1 /\ (CHOOSE e \in lst : TRUE).isdir
    THEN join(WORK_DIR, (CHOOSE e \in lst : TRUE).name)
    ELSE WORK_DIR

\* Lines 222-223 without the test of the patch argument.
get_dir_always(r) ==
    /\ pc[r] = "get_dir"
    /\ work' = [work EXCEPT !.exists = TRUE]
    /\ src_dir' = [src_dir EXCEPT ![r] = GetDir(work)]
    /\ Did(r, "get_dir")
    /\ Goto(r, "apply_patch")
    /\ \E tool \in BOOLEAN : patch_tool' = [patch_tool EXCEPT ![r] = tool]
    /\ UNCHANGED <<src_cache, mirrors, meta, patch, tried, stale, again, prev, ret,
                   alone>>

\* provide, lines 222-223: with the patch argument, get_dir makes WORK_DIR
\* when it is missing and picks the root of the patches.
get_dir(r) ==
    /\ pc[r] = "get_dir"
    /\ IF patch[r]
       THEN /\ work' = [work EXCEPT !.exists = TRUE]
            /\ src_dir' = [src_dir EXCEPT ![r] = GetDir(work)]
            /\ Did(r, "get_dir")
            /\ Goto(r, "apply_patch")
            /\ \E tool \in BOOLEAN : patch_tool' = [patch_tool EXCEPT ![r] = tool]
            /\ UNCHANGED ret
       ELSE /\ Goto(r, "done")
            /\ ret' = [ret EXCEPT ![r] = Returned(provide_result)]
            /\ UNCHANGED <<work, src_dir, did, patch_tool>>
    /\ UNCHANGED <<src_cache, mirrors, meta, patch, tried, stale, again, prev, alone>>

\* meta.get('patches', [])
Patches(m) == IF Has(m, "patches") THEN m["patches"] ELSE <<>>

\* The patch the loop of line 224 comes to next.
NextPatch(r) == Patches(meta[r])[Len(tried[r]) + 1]

\* Whether directory dir is there for the patch tool to run in.
IsDir(w, dir) ==
    /\ w.exists
    /\ \/ dir = WORK_DIR
       \/ \E e \in w.ents : e.isdir /\ join(WORK_DIR, e.name) = dir

\* What a patch that applies in dir may do to the top level of WORK_DIR:
\* below a subdirectory nothing; in WORK_DIR itself it edits what is there,
\* adds a file or removes one.
PatchedEnts(w, dir, by) ==
    IF dir # WORK_DIR THEN {w.ents}
    ELSE { w.ents \cup {Entry(NewFile, FALSE, by)} }
           \cup (IF w.ents = {} THEN {} ELSE {w.ents})
           \cup { w.ents \ {e} : e \in {x \in w.ents : ~x.isdir} }

\* apply_patch with the exit status of the patch tool ignored (call in the
\* place of check_call): the loop goes on after a patch that failed.
apply_patch_unchecked(r) ==
    /\ pc[r] = "apply_patch"
    /\ Len(tried[r]) < Len(Patches(meta[r]))
    /\ tried' = [tried EXCEPT ![r] = Append(@, NextPatch(r))]
    /\ \E isfile \in BOOLEAN, ok \in BOOLEAN :
         IF ~isfile
         THEN Did(r, "isfile") /\ Fail(r, "no such patch") /\ UNCHANGED work
         ELSE IF ~patch_tool[r]
         THEN Did(r, "find patch") /\ Fail(r, "no patch tool") /\ UNCHANGED work
         ELSE /\ Did(r, "patch")
              /\ UNCHANGED <<pc, err>>
              /\ IF ok /\ IsDir(work, src_dir[r])
                 THEN \E ents \in PatchedEnts(work, src_dir[r], r) :
                        work' = [work EXCEPT !.ents = ents, !.patched =
                          Append(@, [p |-> NextPatch(r), root |-> src_dir[r], by |-> r])]
                 ELSE UNCHANGED work
    /\ UNCHANGED <<src_cache, mirrors, meta, patch, src_dir, stale, again, prev, ret,
                   patch_tool, alone>>

\* apply_patch without the lookup of lines 192-199: the tool is run whether
\* the host has it or not, and the run fails when it has not.
apply_patch_no_lookup(r) ==
    /\ pc[r] = "apply_patch"
    /\ Len(tried[r]) < Len(Patches(meta[r]))
    /\ tried' = [tried EXCEPT ![r] = Append(@, NextPatch(r))]
    /\ \E isfile \in BOOLEAN, ok \in BOOLEAN :
         IF ~isfile
         THEN Did(r, "isfile") /\ Fail(r, "no such patch") /\ UNCHANGED work
         ELSE /\ Did(r, "patch")
              /\ IF ok /\ patch_tool[r] /\ IsDir(work, src_dir[r])
                 THEN /\ \E ents \in PatchedEnts(work, src_dir[r], r) :
                           work' = [work EXCEPT !.ents = ents, !.patched =
                             Append(@, [p |-> NextPatch(r), root |-> src_dir[r], by |-> r])]
                      /\ UNCHANGED <<pc, err>>
                 ELSE Fail(r, "patch") /\ UNCHANGED work
    /\ UNCHANGED <<src_cache, mirrors, meta, patch, src_dir, stale, again, prev, ret,
                   patch_tool, alone>>

\* The loop of lines 224-225 with get_dir() called anew for each patch.
apply_patch_recompute(r) ==
    /\ pc[r] = "apply_patch"
    /\ Len(tried[r]) < Len(Patches(meta[r]))
    /\ tried' = [tried EXCEPT ![r] = Append(@, NextPatch(r))]
    /\ \E isfile \in BOOLEAN, ok \in BOOLEAN :
         IF ~isfile
         THEN Did(r, "isfile") /\ Fail(r, "no such patch") /\ UNCHANGED work
         ELSE IF ~patch_tool[r]
         THEN Did(r, "find patch") /\ Fail(r, "no patch tool") /\ UNCHANGED work
         ELSE /\ Did(r, "patch")
              /\ IF ok /\ IsDir(work, GetDir(work))
                 THEN /\ \E ents \in PatchedEnts(work, GetDir(work), r) :
                           work' = [work EXCEPT !.ents = ents, !.patched =
                             Append(@, [p |-> NextPatch(r), root |-> GetDir(work), by |-> r])]
                      /\ UNCHANGED <<pc, err>>
                 ELSE Fail(r, "patch") /\ UNCHANGED work
    /\ UNCHANGED <<src_cache, mirrors, meta, patch, src_dir, stale, again, prev, ret,
                   patch_tool, alone>>

\* provide, lines 224-225, and apply_patch, lines 187-200: one turn of the
\* loop. The patch file must exist, then the patch tool, then the tool runs
\* in src_dir; each of the three may end the call.
apply_patch(r) ==
    /\ pc[r] = "apply_patch"
    /\ Len(tried[r]) < Len(Patches(meta[r]))
    /\ tried' = [tried EXCEPT ![r] = Append(@, NextPatch(r))]
    /\ \E isfile \in BOOLEAN, ok \in BOOLEAN :
         IF ~isfile
         THEN Did(r, "isfile") /\ Fail(r, "no such patch") /\ UNCHANGED work
         ELSE IF ~patch_tool[r]
         THEN Did(r, "find patch") /\ Fail(r, "no patch tool") /\ UNCHANGED work
         ELSE /\ Did(r, "patch")
              /\ IF ok /\ IsDir(work, src_dir[r])
                 THEN /\ \E ents \in PatchedEnts(work, src_dir[r], r) :
                           work' = [work EXCEPT !.ents = ents, !.patched =
                             Append(@, [p |-> NextPatch(r), root |-> src_dir[r], by |-> r])]
                      /\ UNCHANGED <<pc, err>>
                 ELSE Fail(r, "patch") /\ UNCHANGED work
    /\ UNCHANGED <<src_cache, mirrors, meta, patch, src_dir, stale, again, prev, ret,
                   patch_tool, alone>>

\* The loop of line 224 has run out: provide returns.
provide_done(r) ==
    /\ pc[r] = "apply_patch"
    /\ Len(tried[r]) = Len(Patches(meta[r]))
    /\ Goto(r, "done")
    /\ ret' = [ret EXCEPT ![r] = Returned(provide_result)]
    /\ UNCHANGED <<work, src_cache, mirrors, did, meta, patch, src_dir, tried,
                   stale, again, prev, patch_tool, alone>>

\* The caller has the result or the error; the process may call again.
Return(r) ==
    /\ pc[r] \in {"done", "failed"}
    /\ prev' = IF pc[r] = "done" THEN Remote(meta[r])
               ELSE IF err[r] \in {"md5", "sha1", "sha256"}
               THEN Rejected(meta[r], err[r])
               ELSE NoPrev
    /\ pc' = [pc EXCEPT ![r] = "idle"]
    /\ meta' = [meta EXCEPT ![r] = EmptyFn]
    /\ patch' = [patch EXCEPT ![r] = FALSE]
    /\ src_dir' = [src_dir EXCEPT ![r] = <<>>]
    /\ tried' = [tried EXCEPT ![r] = <<>>]
    /\ err' = [err EXCEPT ![r] = ""]
    /\ did' = [did EXCEPT ![r] = {}]
    /\ stale' = [stale EXCEPT ![r] = FALSE]
    /\ again' = [again EXCEPT ![r] = FALSE]
    /\ ret' = [ret EXCEPT ![r] = NoReturn]
    /\ patch_tool' = [patch_tool EXCEPT ![r] = TRUE]
    /\ alone' = [alone EXCEPT ![r] = TRUE]
    /\ UNCHANGED <<work, src_cache, mirrors>>

\* Between calls the build step works in the work directory and leaves files.
BuildStep ==
    /\ \A r \in Procs : pc[r] = "idle"
    /\ work.exists
    /\ \E name \in {Sentinel, DotSentinel} :
         work' = [work EXCEPT !.ents = @ \cup {Entry(name, FALSE, 0)}]
    /\ UNCHANGED <<src_cache, mirrors, pc, meta, patch, src_dir, tried, err, did,
                   stale, again, prev, ret, patch_tool, alone>>

\* ------------------------------------------------------------ VCS providers
Master == <<"m", "a", "s", "t", "e", "r">>
Tip == <<"t", "i", "p">>
SvnHead == <<"h", "e", "a", "d">>

\* A mirror: the remote it was cloned from and, for Subversion, the revision
\* it stands at.
Mirror(url, rev) == [url |-> url, rev |-> rev]

\* git_source, line 86.
git_dn(url) == replace(SplitLast(url, ":"), "/", "_")

\* hg_source, line 138.
hg_dn(url) == replace(SplitLast(url, ":"), "/", "_")

\* svn_source, line 169.
svn_dn(url) == replace(replace(SplitFirst(url, ":"), "/", "_"), ":", "_")

\* Line 101 with the branch looked at before the tag.
git_checkout_branch_first(m) ==
    Or(Or(Get(m, "git_branch"), Get(m, "git_tag")), Master)

\* git_source, line 101.
git_checkout_ref(m) == Or(Or(Get(m, "git_tag"), Get(m, "git_branch")), Master)

\* hg_source, line 147.
hg_update_ref(m) == Or(Get(m, "hg_tag"), Tip)

\* svn_source, line 165.
svn_revision(m) == Or(Get(m, "svn_rev"), SvnHead)

\* Lines 94, 140, 175: isdir(cache_repo).
HasMirror(k, dn) == dn \in DOMAIN mirrors[k]

\* The mirror sync without the isdir test: every call clones anew.
MirrorSyncReclone(r, k, dn, url, rev, update, clone, next) ==
    /\ Did(r, clone)
    /\ \E ok \in BOOLEAN :
         IF ok
         THEN /\ mirrors' = [mirrors EXCEPT ![k] = With(@, dn, Mirror(url, rev))]
              /\ Goto(r, next)
         ELSE Fail(r, clone) /\ UNCHANGED mirrors

\* Lines 94-98, 140-144, 175-180: the mirror of directory dn in cache k is
\* updated when the directory exists and cloned from url otherwise. A failing
\* clone leaves no directory.
MirrorSync(r, k, dn, url, rev, update, clone, next) ==
    IF HasMirror(k, dn)
    THEN /\ Did(r, update)
         /\ \E ok \in BOOLEAN :
              IF ok
              THEN /\ mirrors' = [mirrors EXCEPT ![k][dn].rev = rev]
                   /\ Goto(r, next)
              ELSE Fail(r, update) /\ UNCHANGED mirrors
    ELSE /\ Did(r, clone)
         /\ \E ok \in BOOLEAN :
              IF ok
              THEN /\ mirrors' = [mirrors EXCEPT ![k] = With(@, dn, Mirror(url, rev))]
                   /\ Goto(r, next)
              ELSE Fail(r, clone) /\ UNCHANGED mirrors

\* The lookup of the executable after the mirror sync: without the
\* executable the clone into the cache is attempted first and the call then
\* exits.
FindAfterSync(r, k, dn, url, rev, update, clone, next) ==
    \E found \in BOOLEAN :
      IF ~found
      THEN /\ did' = [did EXCEPT ![r] = @ \cup {clone, "find " \o k}]
           /\ Fail(r, "not installed")
           /\ mirrors' = [mirrors EXCEPT ![k] = With(@, dn, Mirror(url, rev))]
      ELSE MirrorSync(r, k, dn, url, rev, update, clone, next)

\* Lines 82-84, 132-134, 161-163: the provider's executable is looked up;
\* without it the call exits, with it the mirror is synchronised.
FindThenSync(r, k, dn, url, rev, update, clone, next) ==
    \E found \in BOOLEAN :
      IF ~found
      THEN /\ Did(r, "find " \o k)
           /\ Fail(r, "not installed")
           /\ UNCHANGED mirrors
      ELSE MirrorSync(r, k, dn, url, rev, update, clone, next)

\* git_source, lines 82-98.
git_source(r) ==
    /\ pc[r] = "git_source"
    /\ FindThenSync(r, "git", git_dn(meta[r]["git_url"]), meta[r]["git_url"],
                    <<>>, "git fetch", "git clone --mirror", "git clone")
    /\ UNCHANGED <<work, src_cache, frame>>

\* hg_source, lines 132-144.
hg_source(r) ==
    /\ pc[r] = "hg_source"
    /\ FindThenSync(r, "hg", hg_dn(meta[r]["hg_url"]), meta[r]["hg_url"],
                    <<>>, "hg pull", "hg clone url", "hg clone")
    /\ UNCHANGED <<work, src_cache, frame>>

\* svn_source, lines 161-180.
svn_source(r) ==
    /\ pc[r] = "svn_source"
    /\ FindThenSync(r, "svn", svn_dn(meta[r]["svn_url"]), meta[r]["svn_url"],
                    svn_revision(meta[r]), "svn up", "svn co", "copytree")
    /\ UNCHANGED <<work, src_cache, frame>>

\* A clone into WORK_DIR with the remote URL as its source argument, in the
\* place of the mirror's directory.
CloneFromRemote(r, k, dn, tree, cmd, next) ==
    /\ Did(r, cmd)
    /\ \E ok \in BOOLEAN :
         IF ok /\ work.ents = {}
         THEN /\ work' = [work EXCEPT !.exists = TRUE, !.ents = tree,
                            !.origin = [NoOrigin EXCEPT !.kind = k,
                                          !.url = meta[r][k \o "_url"]]]
              /\ Goto(r, next)
         ELSE Fail(r, cmd) /\ UNCHANGED work
    /\ UNCHANGED <<src_cache, mirrors, frame>>

\* A clone of mirror dn of cache k into WORK_DIR: git and hg clone into a
\* directory that is missing or empty, and remove what they made when they
\* fail.
CloneToWork(r, k, dn, tree, cmd, next) ==
    /\ Did(r, cmd)
    /\ \E ok \in BOOLEAN :
         IF ok /\ HasMirror(k, dn) /\ work.ents = {}
         THEN /\ work' = [work EXCEPT !.exists = TRUE, !.ents = tree,
                            !.origin = [NoOrigin EXCEPT !.kind = k, !.key = dn,
                                          !.url = mirrors[k][dn].url]]
              /\ Goto(r, next)
         ELSE Fail(r, cmd) /\ UNCHANGED work
    /\ UNCHANGED <<src_cache, mirrors, frame>>

\* A switch that removes WORK_DIR when the command fails.
SwitchWorkCleanup(r, k, ref, cmd, next) ==
    /\ Did(r, cmd)
    /\ \E ok \in BOOLEAN :
         IF ok /\ work.exists /\ work.origin.kind = k
         THEN /\ work' = [work EXCEPT !.origin.ref = ref]
              /\ Goto(r, next)
         ELSE Fail(r, cmd) /\ work' = NoWork
    /\ UNCHANGED <<src_cache, mirrors, frame>>

\* git checkout, hg update -C: the tree in WORK_DIR is switched to ref, or
\* the command fails and the tree stays as cloned.
SwitchWork(r, k, ref, cmd, next) ==
    /\ Did(r, cmd)
    /\ \E ok \in BOOLEAN :
         IF ok /\ work.exists /\ work.origin.kind = k
         THEN /\ work' = [work EXCEPT !.origin.ref = ref]
              /\ Goto(r, next)
         ELSE Fail(r, cmd) /\ UNCHANGED work
    /\ UNCHANGED <<src_cache, mirrors, frame>>

\* git_source, line 104.
git_clone(r) ==
    /\ pc[r] = "git clone"
    /\ CloneToWork(r, "git", git_dn(meta[r]["git_url"]), GitTree(r),
                   "git clone", "git checkout")

\* git_source, line 105.
git_checkout(r) ==
    /\ pc[r] = "git checkout"
    /\ SwitchWork(r, "git", git_checkout_ref(meta[r]), "git checkout", "git_info")

\* git_info, lines 111-127: WORK_DIR must be there, and git log and git
\* status must write nothing to stderr.
git_info(r) ==
    /\ pc[r] = "git_info"
    /\ Did(r, "git_info")
    /\ \E ok \in BOOLEAN :
         IF ok /\ work.exists THEN Goto(r, "get_dir") ELSE Fail(r, "git error")
    /\ UNCHANGED <<work, src_cache, mirrors, frame>>

\* hg_source, line 150.
hg_clone(r) ==
    /\ pc[r] = "hg clone"
    /\ CloneToWork(r, "hg", hg_dn(meta[r]["hg_url"]), HgTree(r),
                   "hg clone", "hg update")

\* hg_source, line 151.
hg_update(r) ==
    /\ pc[r] = "hg update"
    /\ SwitchWork(r, "hg", hg_update_ref(meta[r]), "hg update", "get_dir")

\* svn_source, line 183: the mirror is copied without .svn; copytree makes
\* WORK_DIR itself and raises when it exists; a failing copy leaves what it
\* had copied.
svn_copytree(r) ==
    /\ pc[r] = "copytree"
    /\ Did(r, "copytree")
    /\ LET dn == svn_dn(meta[r]["svn_url"]) IN
       IF work.exists \/ ~HasMirror("svn", dn)
       THEN Fail(r, "copytree") /\ UNCHANGED work
       ELSE \E ok \in BOOLEAN :
              IF ok
              THEN /\ work' = [work EXCEPT !.exists = TRUE, !.ents = SvnTree(r),
                                 !.origin = [NoOrigin EXCEPT !.kind = "svn", !.key = dn,
                                               !.url = mirrors["svn"][dn].url,
                                               !.ref = mirrors["svn"][dn].rev]]
                   /\ Goto(r, "get_dir")
              ELSE /\ \E part \in (SUBSET SvnTree(r)) \ {SvnTree(r)} :
                        work' = [work EXCEPT !.exists = TRUE, !.ents = part]
                   /\ Fail(r, "copytree")
    /\ UNCHANGED <<src_cache, mirrors, frame>>

\* --------------------------------------------------------- specifications
\* One step of the provide call of process r.
Step(r) ==
    \/ download_to_cache(r)
    \/ verify(r)
    \/ unpack(r)
    \/ extract(r)
    \/ git_source(r)
    \/ git_clone(r)
    \/ git_checkout(r)
    \/ git_info(r)
    \/ hg_source(r)
    \/ hg_clone(r)
    \/ hg_update(r)
    \/ svn_source(r)
    \/ svn_copytree(r)
    \/ no_source(r)
    \/ get_dir(r)
    \/ apply_patch(r)
    \/ provide_done(r)
    \/ Return(r)

\* Calls one at a time, as the callers are to arrange, the build step between.
Next ==
    \/ \E r \in Serial : provide(r, Metas) \/ Step(r)
    \/ BuildStep

Spec == Init /\ [][Next]_vars

\* Archives with every combination of expected digests, for the checks of
\* download_to_cache's verification alone.
AllDigests ==
    { d \in UNION { [S -> UNION {Digests(tp) : tp \in {"md5", "sha1", "sha256"}}] :
                      S \in SUBSET {"md5", "sha1", "sha256"} } :
        \A tp \in DOMAIN d : d[tp] \in Digests(tp) }

VerifyMetas == { ArchiveMeta(FnTgz, d) : d \in AllDigests }

NextVerify ==
    \/ \E r \in Serial :
         \/ provide(r, VerifyMetas)
         \/ download_to_cache(r)
         \/ verify(r)
         \/ unpack(r)
         \/ extract(r)
         \/ get_dir(r)
         \/ provide_done(r)
         \/ Return(r)
    \/ BuildStep

SpecVerify == Init /\ [][NextVerify]_vars

\* Archives of every file name of ExtractNames, with one patch to apply, for
\* the checks of unpack's choice of extractor. The archive cache, which no
\* call empties, is kept to MaxCached files.
ExtractMetas ==
    { With(ArchiveMeta(fn, EmptyFn), "patches", <<1>>) :
        fn \in { n \in ExtractNames :
                   Cardinality(DOMAIN src_cache \cup {n}) <= MaxCached } }

NextExtract ==
    \/ \E r \in Serial :
         \/ provide(r, ExtractMetas)
         \/ download_to_cache(r)
         \/ verify(r)
         \/ unpack(r)
         \/ extract(r)
         \/ get_dir(r)
         \/ apply_patch(r)
         \/ provide_done(r)
         \/ Return(r)
    \/ BuildStep

SpecExtract == Init /\ [][NextExtract]_vars

\* Two build processes that call provide with nothing to keep their calls
\* apart: the steps of the two calls interleave in any order. The
\* descriptors are an archive, a Git repository and the descriptor of no
\* source.
RaceMetas ==
    { ArchiveMeta(FnTgz, EmptyFn), Rec1("git_url", RepoA), EmptyFn }

NextRace ==
    \/ \E r \in Procs :
         \/ provide(r, RaceMetas)
         \/ download_to_cache(r)
         \/ verify(r)
         \/ unpack(r)
         \/ extract(r)
         \/ git_source(r)
         \/ git_clone(r)
         \/ git_checkout(r)
         \/ git_info(r)
         \/ no_source(r)
         \/ get_dir(r)
         \/ provide_done(r)
         \/ Return(r)
    \/ BuildStep

SpecRace == Init /\ [][NextRace]_vars

\* ------------------------------------------------------------------ claims
ArchiveOps ==
    {"found", "download", "KeyError", "verify", "makedirs", "tar_xf", "unzip", "copy2"}
GitOps ==
    {"find git", "git fetch", "git clone --mirror", "git clone", "git checkout",
     "git_info"}
HgOps == {"find hg", "hg pull", "hg clone url", "hg clone", "hg update"}
SvnOps == {"find svn", "svn up", "svn co", "copytree"}
EmptyOps == {"no source"}
PatchOps == {"get_dir", "isfile", "find patch", "patch"}

OpsOf(path) ==
    CASE path = "archive" -> ArchiveOps
      [] path = "git" -> GitOps
      [] path = "hg" -> HgOps
      [] path = "svn" -> SvnOps
      [] OTHER -> EmptyOps

\* The acquisition paths call r has invoked so far.
Invoked(r) ==
    {path \in {"archive", "git", "hg", "svn", "empty"} : did[r] \cap OpsOf(path) # {}}

\* WORK_DIR holds only what call r put there.
Own(r) ==
    /\ \A e \in work.ents : e.by = r
    /\ \A i \in DOMAIN work.patched : work.patched[i].by = r

\* The patches call r applied that are in WORK_DIR, in order.
Applied(r) ==
    LET mine == SelectSeq(work.patched, LAMBDA x : x.by = r) IN
    [i \in DOMAIN mine |-> mine[i].p]

IsPrefix(s, t) == Len(s) <= Len(t) /\ SubSeq(t, 1, Len(s)) = s

PatchErrs == {"no such patch", "no patch tool", "patch"}

DigestErrs == {"md5", "sha1", "sha256"}

\* C1: from its first statement on, and so when it completes, a provide call
\* has nothing in the work directory that was there before the call: every
\* entry and every applied patch is the call's own.
C1_OnlyOwnContent ==
    \A r \in Procs : pc[r] # "idle" => Own(r)

\* A call completed, with a tree and a patch of its own, in a work directory
\* that held entries when it was called.
C1_Witness ==
    \E r \in Procs :
      /\ pc[r] = "done"
      /\ stale[r]
      /\ work.ents # {}
      /\ Len(work.patched) > 0

\* The path C2 claims: an archive identity is a url or a filename.
C2_ClaimedPath(m) ==
    IF Has(m, "fn") \/ Has(m, "url") THEN "archive"
    ELSE IF Has(m, "git_url") THEN "git"
    ELSE IF Has(m, "hg_url") THEN "hg"
    ELSE IF Has(m, "svn_url") THEN "svn"
    ELSE "empty"

\* The path by the filename key alone.
C2_PathByFn(m) ==
    IF Has(m, "fn") THEN "archive"
    ELSE IF Has(m, "git_url") THEN "git"
    ELSE IF Has(m, "hg_url") THEN "hg"
    ELSE IF Has(m, "svn_url") THEN "svn"
    ELSE "empty"

Differs(m, body) ==
    \E tp \in {"md5", "sha1", "sha256"} :
      Has(m, tp) /\ m[tp] # <<>> /\ m[tp] # hashsum_file(body, tp)

\* C3: once the file of an archive descriptor is verified and a supplied
\* digest differs from the file's, the call has failed with the integrity
\* error, nothing was made, extracted or copied in the work directory, and
\* the work directory has no entries.
C3_IntegrityBeforeExtract ==
    \A r \in Procs :
      ( /\ Has(meta[r], "fn")
        /\ "verify" \in did[r]
        /\ Differs(meta[r], src_cache[meta[r]["fn"]]) )
      => /\ pc[r] = "failed"
         /\ err[r] \in DigestErrs
         /\ did[r] \cap {"makedirs", "tar_xf", "unzip", "copy2"} = {}
         /\ work.ents = {}

\* A file found in the cache failed its sha256 although its md5 matched, in
\* a call that found entries in the work directory.
C3_Witness ==
    \E r \in Procs :
      /\ pc[r] = "failed"
      /\ err[r] = "sha256"
      /\ "found" \in did[r]
      /\ Truthy(Get(meta[r], "md5"))
      /\ stale[r]

\* C4: verification fails if and only if some supplied digest (a key with a
\* value that is not empty) differs from the file's digest.
C4_FailsIffDiffers ==
    \A r \in Procs :
      "verify" \in did[r] =>
        ( (pc[r] = "failed" /\ err[r] \in DigestErrs)
            <=> Differs(meta[r], src_cache[meta[r]["fn"]]) )

\* Verification passed with all three digests supplied.
C4_Witness ==
    \E r \in Procs :
      /\ "verify" \in did[r]
      /\ pc[r] = "unpack"
      /\ \A tp \in {"md5", "sha1", "sha256"} : Truthy(Get(meta[r], tp))

\* C5: no step removes a file of the archive cache or a mirror directory,
\* and the archive cache changes only by a download, made only when the
\* cache has no file of the descriptor's filename.
C5_CacheKept ==
    [][ /\ \A fn \in DOMAIN src_cache : fn \in DOMAIN src_cache'
        /\ \A k \in DOMAIN mirrors : \A dn \in DOMAIN mirrors[k] : dn \in DOMAIN mirrors'[k]
        /\ src_cache' # src_cache =>
             \E r \in Procs : "download" \in did'[r] \ did[r]
        /\ \A r \in Procs :
             "download" \in did'[r] \ did[r] => meta[r]["fn"] \notin DOMAIN src_cache
      ]_vars

\* A call that found its file in the cache failed later, the file still there.
C5_Witness ==
    \E r \in Procs :
      /\ pc[r] = "failed"
      /\ "found" \in did[r]
      /\ "download" \notin did[r]
      /\ meta[r]["fn"] \in DOMAIN src_cache

\* The cache, the mirror directory and the two commands of the mirror sync
\* of provider k for descriptor m.
SyncDn(k, m) ==
    CASE k = "git" -> git_dn(m["git_url"])
      [] k = "hg" -> hg_dn(m["hg_url"])
      [] OTHER -> svn_dn(m["svn_url"])

SyncClone(k) ==
    CASE k = "git" -> "git clone --mirror" [] k = "hg" -> "hg clone url" [] OTHER -> "svn co"

SyncUpdate(k) ==
    CASE k = "git" -> "git fetch" [] k = "hg" -> "hg pull" [] OTHER -> "svn up"

\* C6: a mirror sync that finds the executable clones if and only if the
\* cache has no directory for the remote, and updates otherwise; a clone that
\* succeeds leaves the directory; a call that follows a completed call for
\* the same remote of the same provider does not clone; and a call completed
\* by a provider has in the work directory the tree of that mirror and
\* nothing else.
C6_CloneIffNoMirror ==
    [][ \A r \in Procs : \A k \in {"git", "hg", "svn"} :
          /\ (pc[r] = k \o "_source" /\ pc'[r] # pc[r]) =>
               LET dn == SyncDn(k, meta[r])
                   had == dn \in DOMAIN mirrors[k]
               IN  /\ SyncClone(k) \in did'[r] => ~had
                   /\ SyncUpdate(k) \in did'[r] => had
                   /\ ("find " \o k) \notin did'[r] =>
                        (SyncClone(k) \in did'[r]) # (SyncUpdate(k) \in did'[r])
                   /\ (SyncClone(k) \in did'[r] /\ pc'[r] # "failed") =>
                        dn \in DOMAIN mirrors'[k]
                   /\ again[r] => SyncClone(k) \notin did'[r]
          /\ (pc'[r] = "done" /\ Remote(meta'[r]).kind = k) =>
               /\ work'.origin.kind = k
               /\ work'.origin.key = SyncDn(k, meta'[r])
               /\ \A e \in work'.ents : e.by = r
      ]_vars

\* The second of two calls for the same Git remote completed: it fetched,
\* and the work directory it found populated holds its own tree.
C6_Witness ==
    \E r \in Procs :
      /\ pc[r] = "done"
      /\ again[r]
      /\ stale[r]
      /\ "git fetch" \in did[r]
      /\ work.origin.kind = "git"

\* C7: the patches tried are the first of the declared list, in its order;
\* the patches applied are those tried, but for the last one when it failed;
\* a call that fails on a patch has tried none after it and keeps the
\* patches applied before it; a call that completes has applied them all.
C7_PatchesInOrder ==
    \A r \in Procs :
      pc[r] # "idle" =>
        /\ IsPrefix(tried[r], Patches(meta[r]))
        /\ IsPrefix(Applied(r), tried[r])
        /\ pc[r] = "apply_patch" => Applied(r) = tried[r]
        /\ (pc[r] = "done" /\ patch[r]) => Applied(r) = Patches(meta[r])
        /\ pc[r] = "failed" =>
             IF err[r] \in PatchErrs
             THEN Len(Applied(r)) = Len(tried[r]) - 1
             ELSE tried[r] = <<>>

\* The second patch failed in the patch tool; the first stays applied.
C7_Witness ==
    \E r \in Procs :
      /\ pc[r] = "failed"
      /\ err[r] = "patch"
      /\ Len(tried[r]) = 2
      /\ Applied(r) = <<tried[r][1]>>
      /\ Len(Patches(meta[r])) >= 2

NoIdentity(m) ==
    \A k \in {"fn", "url", "git_url", "hg_url", "svn_url"} : ~Has(m, k)

\* C8: a call whose descriptor has no identity key invokes nothing but the
\* making of the work directory and the patching, fails only in patching,
\* and comes to the patching step with a work directory that exists and is
\* empty.
C8_NoSourceEmpty ==
    \A r \in Procs :
      (pc[r] # "idle" /\ NoIdentity(meta[r])) =>
        /\ did[r] \subseteq EmptyOps \cup PatchOps
        /\ pc[r] = "failed" => err[r] \in PatchErrs
        /\ pc[r] = "get_dir" => work = EmptyWork
        /\ (pc[r] = "done" /\ Patches(meta[r]) = <<>>) => work = EmptyWork

\* A call without identity keys came to the patching step with the work
\* directory empty, having found entries there and with the caches filled.
C8_Witness ==
    \E r \in Procs :
      /\ pc[r] = "get_dir"
      /\ NoIdentity(meta[r])
      /\ stale[r]
      /\ work = EmptyWork
      /\ DOMAIN src_cache # {}
      /\ DOMAIN mirrors["git"] # {}

MirrorErrs ==
    {"git fetch", "git clone --mirror", "hg pull", "hg clone url", "svn up", "svn co"}
CloneErrs == {"git clone", "hg clone"}
SwitchErrs == {"git checkout", "hg update"}

\* C9 as claimed: after a call failed in a VCS command the work directory
\* holds nothing of that call.
C9_Original ==
    \A r \in Procs :
      (pc[r] = "failed" /\ err[r] \in MirrorErrs \cup CloneErrs \cup SwitchErrs) =>
        \A e \in work.ents : e.by # r

\* C9, amended: a call that failed in a VCS command ran no later command
\* and no patch; after a failed mirror clone or update the work directory
\* does not exist; after a failed checkout or update to the requested
\* reference it holds the clone of the failed call, not switched to the
\* reference.
C9_AbortLeavesClone ==
    \A r \in Procs :
      (pc[r] = "failed" /\ err[r] \in MirrorErrs \cup CloneErrs \cup SwitchErrs) =>
        /\ tried[r] = <<>>
        /\ did[r] \cap (PatchOps \cup {"git_info"}) = {}
        /\ err[r] \in MirrorErrs =>
             /\ work = NoWork
             /\ did[r] \cap (CloneErrs \cup SwitchErrs \cup {"copytree"}) = {}
        /\ err[r] \in CloneErrs => did[r] \cap SwitchErrs = {}
        /\ err[r] \in SwitchErrs =>
             /\ work.ents = (IF err[r] = "git checkout" THEN GitTree(r) ELSE HgTree(r))
             /\ work.origin.ref = <<>>

\* git checkout of a tag failed: the clone is in the work directory.
C9_Witness ==
    \E r \in Procs :
      /\ pc[r] = "failed"
      /\ err[r] = "git checkout"
      /\ Truthy(Get(meta[r], "git_tag"))
      /\ work.ents = GitTree(r)

\* C10: a call without the patch argument has looked up and applied no patch
\* and chosen no patch root, and its step after the acquisition leaves the
\* work directory as the acquisition left it and completes the call.
C10_PatchOptIn ==
    [][ \A r \in Procs :
          (pc'[r] # "idle" /\ ~patch'[r]) =>
            /\ tried'[r] = <<>>
            /\ src_dir'[r] = <<>>
            /\ did'[r] \cap PatchOps = {}
            /\ \A i \in DOMAIN work'.patched : work'.patched[i].by # r
            /\ (pc[r] = "get_dir" /\ pc'[r] # "get_dir") =>
                 (pc'[r] = "done" /\ work' = work)
      ]_vars

\* A call with patches declared completed without the patch argument.
C10_Witness ==
    \E r \in Procs :
      /\ pc[r] = "done"
      /\ ~patch[r]
      /\ Patches(meta[r]) # <<>>
      /\ work.ents # {}
      /\ work.patched = <<>>

\* C11 as claimed: a call that has completed has returned the path of the
\* work directory to its caller.
C11_Original ==
    \A r \in Procs :
      pc[r] = "done" => ret[r] = Returned(WORK_DIR)

\* What the code does: a call returns only by completing, and what it then
\* returns is None, whatever the path taken.
C11_ReturnsNone ==
    \A r \in Procs :
      /\ ret[r].returned <=> pc[r] = "done"
      /\ ret[r].value = None

\* The call of __main__ (url, git_url, git_tag) completed by the Git
\* provider, the work directory populated, and returned None.
C11_Witness ==
    \E r \in Procs :
      /\ pc[r] = "done"
      /\ Has(meta[r], "url") /\ Has(meta[r], "git_tag") /\ ~Has(meta[r], "fn")
      /\ work.origin.kind = "git"
      /\ ret[r] = Returned(None)

\* The commands that contact the remote, and the steps that put a tree into
\* the work directory, of provider k.
RemoteOps(k) == {SyncClone(k), SyncUpdate(k)}

Materialize(k) ==
    CASE k = "git" -> "git clone" [] k = "hg" -> "hg clone" [] OTHER -> "copytree"

\* C12: a call contacts the remote in the mirror sync step alone; the step
\* that puts a provider's tree into the work directory comes after a mirror
\* sync that succeeded, contacts no remote, leaves the mirrors as they are
\* and takes what it writes from the mirror directory of the cache, the whole
\* tree when it succeeds; and so a tree of a provider in the work directory
\* is the tree of a mirror in the cache.
C12_FromMirrorOnly ==
    [][ \A r \in Procs : \A k \in {"git", "hg", "svn"} :
          /\ (did'[r] \ did[r]) \cap RemoteOps(k) # {} => pc[r] = k \o "_source"
          /\ pc[r] = Materialize(k) =>
               /\ did[r] \cap RemoteOps(k) # {}
               /\ mirrors' = mirrors
               /\ work'.ents # work.ents =>
                    /\ SyncDn(k, meta[r]) \in DOMAIN mirrors[k]
                    /\ pc'[r] # "failed" =>
                         /\ work'.origin.kind = k
                         /\ work'.origin.key = SyncDn(k, meta[r])
                         /\ work'.origin.url = mirrors[k][SyncDn(k, meta[r])].url
          /\ work'.origin.kind = k =>
               /\ work'.origin.key \in DOMAIN mirrors'[k]
               /\ work'.origin.url = mirrors'[k][work'.origin.key].url
      ]_vars

\* A Mercurial call completed after a pull of the mirror, the work directory
\* holding the tree cloned from that mirror.
C12_Witness ==
    \E r \in Procs :
      /\ pc[r] = "done"
      /\ "hg pull" \in did[r]
      /\ "hg clone" \in did[r]
      /\ work.origin.kind = "hg"
      /\ work.origin.key = hg_dn(meta[r]["hg_url"])

\* C13: a call fails for a missing executable only in the first step of a
\* provider, the lookup; that step changes no mirror, no cache file and not
\* the work directory; and the call that failed so has invoked nothing but
\* the lookup of its provider's executable, no VCS command and no patch
\* step, has returned nothing, and the work directory does not exist.
C13_NoExecutableStops ==
    [][ \A r \in Procs :
          LET k == Remote(meta'[r]).kind IN
          (pc'[r] = "failed" /\ err'[r] = "not installed") =>
            /\ k \in {"git", "hg", "svn"}
            /\ pc[r] \in {k \o "_source", "failed"}
            /\ mirrors' = mirrors
            /\ src_cache' = src_cache
            /\ work' = work
            /\ work' = NoWork
            /\ did'[r] = {"find " \o k}
            /\ tried'[r] = <<>>
            /\ src_dir'[r] = <<>>
            /\ ~ret'[r].returned
      ]_vars

\* Git was not found in a call for a remote that has a mirror in the cache,
\* made with patches to apply and entries in the work directory.
C13_Witness ==
    \E r \in Procs :
      /\ pc[r] = "failed"
      /\ err[r] = "not installed"
      /\ "find git" \in did[r]
      /\ HasMirror("git", git_dn(meta[r]["git_url"]))
      /\ patch[r] /\ Patches(meta[r]) # <<>>
      /\ stale[r]

\* C14 as claimed: a call that entered the patching with patches to apply
\* on a host without the patch tool does not complete, and when it has
\* failed the error is the missing tool and no patch file was resolved.
C14_Original ==
    \A r \in Procs :
      ("get_dir" \in did[r] /\ Patches(meta[r]) # <<>> /\ ~patch_tool[r]) =>
        /\ pc[r] # "done"
        /\ pc[r] = "failed" => (err[r] = "no patch tool" /\ tried[r] = <<>>)

\* C14, amended: such a call does not complete and never runs the patch
\* tool; it fails in the first turn of the loop, with that one patch file
\* resolved and no patch applied, and the error is the missing tool or, when
\* the first patch file does not exist, the missing file, which is looked
\* for first.
C14_FailsAtFirstPatch ==
    \A r \in Procs :
      ("get_dir" \in did[r] /\ Patches(meta[r]) # <<>> /\ ~patch_tool[r]) =>
        /\ pc[r] \in {"apply_patch", "failed"}
        /\ "patch" \notin did[r]
        /\ Applied(r) = <<>>
        /\ pc[r] = "apply_patch" => tried[r] = <<>>
        /\ pc[r] = "failed" =>
             /\ tried[r] = <<Patches(meta[r])[1]>>
             /\ err[r] \in {"no patch tool", "no such patch"}
             /\ err[r] = "no patch tool" <=> "find patch" \in did[r]
             /\ err[r] = "no such patch" <=> "isfile" \in did[r]

\* On a host without the patch tool a call with two patches failed on the
\* first because the patch file does not exist.
C14_Witness ==
    \E r \in Procs :
      /\ pc[r] = "failed"
      /\ ~patch_tool[r]
      /\ Len(Patches(meta[r])) = 2
      /\ err[r] = "no such patch"
      /\ work.ents # {}

\* A reference is given when its key holds a value that is not empty.
Given(m, k) == Has(m, k) /\ m[k] # None

\* The reference C15 names for provider k and descriptor m.
C15_Ref(k, m) ==
    CASE k = "git" -> IF Given(m, "git_tag") THEN m["git_tag"]
                      ELSE IF Given(m, "git_branch") THEN m["git_branch"]
                      ELSE <<"m", "a", "s", "t", "e", "r">>
      [] k = "hg" -> IF Given(m, "hg_tag") THEN m["hg_tag"] ELSE <<"t", "i", "p">>
      [] OTHER -> IF Given(m, "svn_rev") THEN m["svn_rev"]
                  ELSE <<"h", "e", "a", "d">>

\* C15: once a provider has switched or copied the tree in the work
\* directory, the tree stands at the reference of the descriptor: for Git
\* the tag, else the branch, else master; for Mercurial the tag, else tip;
\* for Subversion the revision, else head, and the Subversion mirror stands
\* at that revision from the mirror sync on.
C15_RefResolved ==
    \A r \in Procs :
      LET k == Remote(meta[r]).kind IN
      /\ ( /\ k \in {"git", "hg", "svn"}
           /\ pc[r] \in {"git_info", "get_dir", "apply_patch", "done"} )
         => /\ work.origin.kind = k
            /\ work.origin.ref = C15_Ref(k, meta[r])
      /\ (k = "svn" /\ pc[r] = "copytree")
         => mirrors["svn"][svn_dn(meta[r]["svn_url"])].rev = C15_Ref(k, meta[r])

\* A Git call with a tag and a branch completed at the tag.
C15_Witness ==
    \E r \in Procs :
      /\ pc[r] = "done"
      /\ Given(meta[r], "git_tag") /\ Given(meta[r], "git_branch")
      /\ meta[r]["git_tag"] # meta[r]["git_branch"]
      /\ work.origin.kind = "git"
      /\ work.origin.ref = meta[r]["git_tag"]

\* The same letter, whatever its case.
SameLetter(c, d) == LowerChar(c) = LowerChar(d)

\* fn ends in suf, letters compared without regard to case.
C16_Ends(fn, suf) ==
    /\ Len(suf) <= Len(fn)
    /\ \A i \in 1..Len(suf) : SameLetter(fn[Len(fn) - Len(suf) + i], suf[i])

\* The extraction C16 names for a file name.
C16_Kind(fn) ==
    IF \/ C16_Ends(fn, <<".", "t", "a", "r", ".", "g", "z">>)
       \/ C16_Ends(fn, <<".", "t", "g", "z">>)
       \/ C16_Ends(fn, <<".", "t", "a", "r", ".", "b", "z", "2">>)
       \/ C16_Ends(fn, <<".", "t", "a", "r", ".", "x", "z">>)
       \/ C16_Ends(fn, <<".", "t", "a", "r">>)
    THEN "tar_xf"
    ELSE IF C16_Ends(fn, <<".", "z", "i", "p">>) THEN "unzip"
    ELSE "copy2"

\* C16: the one extraction a call invokes is the one of the suffix of its
\* file name, whatever the case of the letters and whatever the file holds;
\* and the step that copies a file of another suffix either fails in the
\* copy itself or leaves in the work directory that file alone, under its
\* name and with its content, and goes on to the patching step.
C16_BySuffix ==
    [][ \A r \in Procs :
          (pc[r] = "extract" /\ pc'[r] # "extract") =>
            LET fn == meta[r]["fn"] IN
            /\ did'[r] \cap {"tar_xf", "unzip", "copy2"} = {C16_Kind(fn)}
            /\ C16_Kind(fn) = "copy2" =>
                 /\ pc'[r] = "failed" => err'[r] = "copy2"
                 /\ pc'[r] # "failed" =>
                      /\ pc'[r] = "get_dir"
                      /\ work'.ents = {Entry(fn, FALSE, r)}
                      /\ work'.origin.body = src_cache[fn]
      ]_vars

\* A file of a name that ends in a known suffix followed by an unknown one
\* was copied, and the call went on and applied its patch.
C16_Witness ==
    \E r \in Procs :
      /\ pc[r] = "done"
      /\ meta[r]["fn"] = <<"a", ".", "t", "g", "z", ".", "a", "s", "c">>
      /\ "copy2" \in did[r]
      /\ Len(work.patched) = 1

\* The work directory holds the tree of the descriptor of call r, put there
\* by call r, and nothing else.
HoldsOwnTree(r) ==
    LET m == meta[r]
        to == Dispatch(m)
    IN  /\ work.exists
        /\ Own(r)
        /\ CASE to = "download_to_cache" ->
                   /\ work.origin.kind = Extractor(join_src_cache(m["fn"]))
                   /\ work.origin.key = m["fn"]
                   /\ work.ents = Extracted(work.origin.kind, m["fn"], src_cache[m["fn"]], r)
             [] to = "git_source" ->
                   /\ work.origin.kind = "git"
                   /\ work.origin.key = git_dn(m["git_url"])
                   /\ work.origin.ref = git_checkout_ref(m)
                   /\ work.ents = GitTree(r)
             [] to = "hg_source" ->
                   /\ work.origin.kind = "hg"
                   /\ work.origin.key = hg_dn(m["hg_url"])
                   /\ work.origin.ref = hg_update_ref(m)
                   /\ work.ents = HgTree(r)
             [] to = "svn_source" ->
                   /\ work.origin.kind = "svn"
                   /\ work.origin.key = svn_dn(m["svn_url"])
                   /\ work.origin.ref = svn_revision(m)
                   /\ work.ents = SvnTree(r)
             [] OTHER -> work.origin = NoOrigin /\ work.ents = {}

\* C17: a call during which no other call was in progress, when it has
\* completed, has in the work directory the tree of its own descriptor and
\* nothing else, and it never fails because the work directory is there
\* when it comes to make it. (With calls that interleave both happen: the
\* state of C17_Witness is reached.)
C17_SerializedOwnTree ==
    \A r \in Procs :
      alone[r] =>
        /\ pc[r] = "done" => HoldsOwnTree(r)
        /\ pc[r] = "failed" => err[r] # "OSError"

\* Two calls interleaved: a Git call completed its checkout and its report
\* in the clone that the other call made after it had removed the clone of
\* the first, and the first call has completed with the tree of the other.
C17_Witness ==
    \E r \in Procs : \E q \in Procs \ {r} :
      /\ pc[r] = "done"
      /\ ~alone[r]
      /\ Dispatch(meta[r]) = "git_source"
      /\ {"git clone", "git checkout", "git_info"} \subseteq did[r]
      /\ work.ents # {}
      /\ \A e \in work.ents : e.by = q
      /\ ~HoldsOwnTree(r)

\* The root C18 names for a work directory: its one entry of a name that
\* does not start with a dot, when there is one only and it is a directory.
C18_Root(w) ==
    LET shown == {e \in w.ents : e.name[1] # "."} IN
    IF \E e \in shown : shown = {e} /\ e.isdir
    THEN WORK_DIR \o << (CHOOSE e \in shown : TRUE).name >>
    ELSE WORK_DIR

\* C18: the root of the patches of a call is set in one step, after the
\* acquisition and before the first patch, to the root named above for the
\* work directory as it then is; no turn of the patch loop changes it; and
\* every patch of the call was applied in it.
C18_OneRoot ==
    [][ \A r \in Procs :
          /\ src_dir'[r] # src_dir[r] =>
               \/ /\ pc[r] = "get_dir" /\ pc'[r] = "apply_patch"
                  /\ tried[r] = <<>>
                  /\ src_dir'[r] = C18_Root(work)
               \/ pc'[r] = "idle" /\ src_dir'[r] = <<>>
          /\ pc[r] = "apply_patch" => src_dir'[r] = src_dir[r]
          /\ pc'[r] # "idle" =>
               \A i \in DOMAIN work'.patched :
                 work'.patched[i].by = r => work'.patched[i].root = src_dir'[r]
      ]_vars

\* Two patches were applied in the work directory itself although the first
\* removed a file and left a single directory there, which a second look
\* would have taken for the root.
C18_Witness ==
    \E r \in Procs :
      /\ pc[r] = "done"
      /\ Len(work.patched) = 2
      /\ src_dir[r] = WORK_DIR
      /\ work.patched[1].root = WORK_DIR /\ work.patched[2].root = WORK_DIR
      /\ C18_Root(work) # WORK_DIR

\* C19 as claimed: a call that updates a mirror, or has completed with a
\* tree cloned or copied from one, has done so on a mirror that was cloned
\* from the remote URL of its own descriptor.
C19_Original ==
    \A r \in Procs :
      LET k == Remote(meta[r]).kind
          url == Remote(meta[r]).url
      IN  k \in {"git", "hg", "svn"} =>
            /\ (SyncUpdate(k) \in did[r] /\ HasMirror(k, SyncDn(k, meta[r]))) =>
                 mirrors[k][SyncDn(k, meta[r])].url = url
            /\ pc[r] = "done" => work.origin.url = url

\* A call for the Git remote g:a/b found the mirror directory a_b, made by an
\* earlier call for h:a/b, fetched in it and completed with the tree of
\* h:a/b in the work directory.
C19_Witness ==
    \E r \in Procs :
      /\ pc[r] = "done"
      /\ Has(meta[r], "git_url") /\ meta[r]["git_url"] = RepoB
      /\ "git fetch" \in did[r]
      /\ "git clone --mirror" \notin did[r]
      /\ git_dn(RepoA) = git_dn(RepoB)
      /\ mirrors["git"][git_dn(RepoB)].url = RepoA
      /\ work.origin.url = RepoA

\* The algorithm the integrity error names: the first of md5, sha1, sha256
\* whose digest is given and is not the digest of the file.
C20_FirstDiff(m, body) ==
    IF Given(m, "md5") /\ m["md5"] # hashsum_file(body, "md5") THEN "md5"
    ELSE IF Given(m, "sha1") /\ m["sha1"] # hashsum_file(body, "sha1") THEN "sha1"
    ELSE IF Given(m, "sha256") /\ m["sha256"] # hashsum_file(body, "sha256") THEN "sha256"
    ELSE ""

\* C20: no step changes or removes a file of the archive cache, so the file
\* that failed its check stays as it is; a call that has failed the check
\* has its file in the cache, and its error is the first digest that
\* differs from that file; and the call that follows a failed check with the
\* same file name and the same digests downloads nothing, finds the file,
\* and fails in the check, with the error given by the same file and the
\* same digests.
C20_RejectedStays ==
    [][ /\ \A fn \in DOMAIN src_cache :
             fn \in DOMAIN src_cache' /\ src_cache'[fn] = src_cache[fn]
        /\ \A r \in Procs :
             /\ (pc'[r] = "failed" /\ err'[r] \in DigestErrs) =>
                  /\ meta'[r]["fn"] \in DOMAIN src_cache'
                  /\ err'[r] = C20_FirstDiff(meta'[r], src_cache'[meta'[r]["fn"]])
             /\ (again'[r] /\ Dispatch(meta'[r]) = "download_to_cache") =>
                  /\ meta'[r]["fn"] \in DOMAIN src_cache'
                  /\ "download" \notin did'[r]
                  /\ pc'[r] \in {"download_to_cache", "verify", "failed"}
                  /\ pc'[r] \in {"verify", "failed"} => "found" \in did'[r]
                  /\ pc'[r] = "failed" => err'[r] \in DigestErrs
             /\ (pc[r] = "idle" /\ again'[r] /\ prev.kind = "rejected") =>
                  /\ prev.url \in DOMAIN src_cache'
                  /\ prev.err = C20_FirstDiff(meta'[r], src_cache'[prev.url])
      ]_vars

\* The call after a failed integrity check, for the same file name with the
\* same digests, found the file in the cache and failed on the sha256 again.
C20_Witness ==
    \E r \in Procs :
      /\ again[r]
      /\ Has(meta[r], "fn")
      /\ pc[r] = "failed"
      /\ err[r] = "sha256"
      /\ did[r] = {"found", "verify"}
      /\ meta[r]["fn"] \in DOMAIN src_cache

====
